---- MODULE Spec2Model ----
(***************************************************************************)
(* Model of the screenshot-runner: the capture script (screenshot_urls.py),*)
(* the helpers (helpers.py) and the /run endpoint                          *)
(* (controllers/screenshots_controller.py).                                *)
(*                                                                         *)
(* Strings are sequences of one-character strings, so that the regular     *)
(* expressions of sanitize_filename / list_urls are computed, not assumed. *)
(***************************************************************************)
EXTENDS Integers, Sequences, FiniteSets, TLC

(* ------------------------------ bounds -------------------------------- *)
\* longest URL list file (in lines) the model enumerates
MaxLines == 2
\* number of requests a service handles one after the other
MaxRuns == 2
\* last second of the clock
MaxClock == 1
\* longest varied part of an input string of the file-name functions
MaxBody == 3

(* --------------------------- program constants ------------------------ *)
DefaultMaxLen == 150
DefaultThreshold == 92
\* gentle_scroll: max_steps, and the pixels of one step
DefaultMaxSteps == 100
ScrollStep == 800

(* ------------------------------ strings ------------------------------- *)
LowerSeq == <<"a","b","c","d","e","f","g","h","i","j","k","l","m",
              "n","o","p","q","r","s","t","u","v","w","x","y","z">>
UpperSeq == <<"A","B","C","D","E","F","G","H","I","J","K","L","M",
              "N","O","P","Q","R","S","T","U","V","W","X","Y","Z">>
Digits == {"0","1","2","3","4","5","6","7","8","9"}
Range(s) == {s[k] : k \in 1..Len(s)}

\* the character class [A-Za-z0-9._-]
SafeChars == Range(LowerSeq) \cup Range(UpperSeq) \cup Digits \cup {".", "_", "-"}

\* characters removed by str.strip()
Whitespace == {" ", "\t"}

\* re.I case folding of one character
ToLower(c) ==
  IF c \in Range(UpperSeq)
    THEN LowerSeq[CHOOSE k \in 1..Len(UpperSeq) : UpperSeq[k] = c]
    ELSE c

S_http == <<"h","t","t","p">>
S_https_prefix == <<"h","t","t","p","s",":","/","/">>
S_png == <<".","p","n","g">>
S_screenshot == <<"s","c","r","e","e","n","s","h","o","t">>
S_diff_ == <<"d","i","f","f","_">>

Drop(s, n) == SubSeq(s, n + 1, Len(s))
Take(s, n) == SubSeq(s, 1, n)

\* does s start with p, characters compared after folding when ignoreCase
StartsWith(s, p, ignoreCase) ==
  /\ Len(s) >= Len(p)
  /\ \A k \in 1..Len(p) :
       IF ignoreCase THEN ToLower(s[k]) = ToLower(p[k]) ELSE s[k] = p[k]

\* length of the match of the regular expression ^https?:// at the start of
\* s, 0 when it does not match
SchemeMatchLen(s, ignoreCase) ==
  IF StartsWith(s, S_http \o <<"s",":","/","/">>, ignoreCase) THEN 8
  ELSE IF StartsWith(s, S_http \o <<":","/","/">>, ignoreCase) THEN 7
  ELSE 0

\* str.strip(): remove leading and trailing characters of the set cs
RECURSIVE LStrip(_, _)
LStrip(s, cs) ==
  IF s # <<>> /\ Head(s) \in cs THEN LStrip(Tail(s), cs) ELSE s

RECURSIVE RStrip(_, _)
RStrip(s, cs) ==
  IF s # <<>> /\ s[Len(s)] \in cs THEN RStrip(Take(s, Len(s) - 1), cs) ELSE s

Strip(s, cs) == RStrip(LStrip(s, cs), cs)

\* re.sub(r"[^A-Za-z0-9._-]+", "_", s): every maximal run of characters
\* outside the class becomes one underscore (its first character is replaced,
\* its other characters are dropped)
SubUnsafe(s) ==
  LET marked == [k \in 1..Len(s) |->
                   IF s[k] \in SafeChars THEN s[k]
                   ELSE IF k > 1 /\ s[k - 1] \notin SafeChars THEN ""
                   ELSE "_"]
  IN SelectSeq(marked, LAMBDA c : c # "")

\* re.sub(r"_+", "_", s): of every run of underscores the first is kept
CollapseUnderscores(s) ==
  LET marked == [k \in 1..Len(s) |->
                   IF s[k] = "_" /\ k > 1 /\ s[k - 1] = "_" THEN "" ELSE s[k]]
  IN SelectSeq(marked, LAMBDA c : c # "")

\* a plausible slip: the length limit left out
sanitize_filename_no_cut(url, max_len) ==
  LET noScheme == Drop(url, SchemeMatchLen(url, FALSE))
      safe2 == Strip(CollapseUnderscores(SubUnsafe(noScheme)), {"_"})
  IN (IF safe2 = <<>> THEN S_screenshot ELSE safe2) \o S_png

\* helpers.sanitize_filename(url, max_len)
sanitize_filename(url, max_len) ==
  LET noScheme == Drop(url, SchemeMatchLen(url, FALSE))
      safe1 == SubUnsafe(noScheme)
      safe2 == Strip(CollapseUnderscores(safe1), {"_"})
      safe3 == IF Len(safe2) > max_len THEN Take(safe2, max_len) ELSE safe2
      safe4 == IF safe3 = <<>> THEN S_screenshot ELSE safe3
  IN safe4 \o S_png

\* screenshot_urls.sanitize_filename(url, max_len), the capture script's copy
su_sanitize_filename(url, max_len) ==
  LET noScheme == Drop(url, SchemeMatchLen(url, FALSE))
      collapsed == CollapseUnderscores(SubUnsafe(noScheme))
      stripped == Strip(collapsed, {"_"})
      cut == IF Len(stripped) > max_len THEN Take(stripped, max_len) ELSE stripped
  IN (IF cut = <<>> THEN S_screenshot ELSE cut) \o S_png

\* [ln.strip() for ln in text.splitlines()]
StripLines(lines) == [k \in 1..Len(lines) |-> Strip(lines[k], Whitespace)]

\* a plausible slip: the lines filtered before they are stripped
read_urls_no_strip(lines) ==
  SelectSeq(lines, LAMBDA ln : ln # <<>> /\ ~StartsWith(ln, <<"#">>, FALSE))

\* screenshot_urls.read_urls
read_urls(lines) ==
  SelectSeq(StripLines(lines), LAMBDA ln : ln # <<>> /\ ~StartsWith(ln, <<"#">>, FALSE))

\* the "ensure scheme" step of main's loop
ensure_scheme(url) ==
  IF SchemeMatchLen(url, TRUE) > 0 THEN url ELSE S_https_prefix \o url

\* a plausible slip: the scheme test of list_urls without re.I
list_urls_case_sensitive(lines) ==
  LET raw == StripLines(lines)
      kept == SelectSeq(raw, LAMBDA ln : ln # <<>> /\ ~StartsWith(ln, <<"#">>, FALSE))
  IN [k \in 1..Len(kept) |->
        IF SchemeMatchLen(kept[k], FALSE) > 0 THEN kept[k]
        ELSE S_https_prefix \o kept[k]]

\* helpers.list_urls on an existing file
list_urls(lines) ==
  LET raw == StripLines(lines)
      kept == SelectSeq(raw, LAMBDA ln : ln # <<>> /\ ~StartsWith(ln, <<"#">>, FALSE))
  IN [k \in 1..Len(kept) |->
        IF SchemeMatchLen(kept[k], TRUE) > 0 THEN kept[k]
        ELSE S_https_prefix \o kept[k]]


(* ------------------------------ inputs -------------------------------- *)
\* the lines a URL list file is made of: a bare host, a URL with an
\* upper-case scheme, a comment (indented) and a blank line
L_a == <<"a">>
L_HTTP_b == <<"H","T","T","P",":","/","/","b">>
L_comment == <<" ","#","a">>
L_blank == <<" ">>
Lines == {L_a, L_HTTP_b, L_comment, L_blank}

RECURSIVE SeqsUpTo(_, _)
SeqsUpTo(S, n) ==
  IF n = 0 THEN {<<>>}
  ELSE LET shorter == SeqsUpTo(S, n - 1)
       IN shorter \cup {Append(f, x) : f \in {g \in shorter : Len(g) = n - 1}, x \in S}

UrlFiles == SeqsUpTo(Lines, MaxLines)

\* values of the ssim_threshold parameter, in hundredths
Thresholds == {DefaultThreshold, 100}

\* DATA_DIR sub-directories
DIR_OUT == "screenshots"
DIR_TRAINER == "trainer_screenshots"
DIR_DIFF == "diff"
Dirs == {DIR_OUT, DIR_TRAINER, DIR_DIFF}

\* values of the out_dir / trainer_dir / diff_dir parameters: the defaults,
\* and for out_dir also the directory of the baselines
OutDirParams == {DIR_OUT}
AnyOutDirParams == {DIR_OUT, DIR_TRAINER}
TrainerDirParams == {DIR_TRAINER}
DiffDirParams == {DIR_DIFF}

None == "None"

(* ---------------------------- file contents --------------------------- *)
\* a PNG file: kind "img" is a decodable picture of pixel value px,
\* "undecodable" a file Image.open rejects (corrupt or empty), "too_small" a
\* picture smaller than the SSIM window; src is who wrote the file ("pre": it
\* was there before the request)
File(kind, px, src) == [kind |-> kind, px |-> px, src |-> src]

\* a plausible slip: a file that exists is not replaced (open mode "x")
WriteFile_if_absent(dir, name, content) ==
  [n \in (DOMAIN dir) \cup {name} |-> IF n \in DOMAIN dir THEN dir[n] ELSE content]

\* Path.write_bytes / write_text / Image.save: create or replace the file
WriteFile(dir, name, content) ==
  [n \in (DOMAIN dir) \cup {name} |-> IF n = name THEN content ELSE dir[n]]
RemoveFiles(dir, names) == [n \in (DOMAIN dir) \ names |-> dir[n]]

\* the two file names the URL lines of the model map to
Key_a == sanitize_filename(list_urls(<<L_a>>)[1], DefaultMaxLen)
Key_b == sanitize_filename(list_urls(<<L_HTTP_b>>)[1], DefaultMaxLen)

\* directory contents before the request: the baseline of a may be missing,
\* a picture, corrupt or tiny, the baseline of b missing or a picture; a
\* capture of a may be left over from an earlier run
PreFiles ==
  {File("img", 0, "pre"), File("undecodable", 0, "pre"), File("too_small", 0, "pre")}
InitTrainerDirs ==
  UNION {[S -> PreFiles] : S \in SUBSET {Key_a}}
    \cup {WriteFile(t, Key_b, File("img", 0, "pre")) :
            t \in UNION {[S -> PreFiles] : S \in SUBSET {Key_a}}}
InitOutDirs == UNION {[S -> {File("img", 0, "pre")}] : S \in SUBSET {Key_a}}

\* the pictures a page can render to: the baseline picture and one that
\* differs from it
Pictures == {0, 1}

\* what Page.captureScreenshot can return for a page: a picture, or no data
CaptureResults ==
  {File("img", px, "capture") : px \in Pictures} \cup {File("undecodable", 0, "capture")}

(* ------------------------ comparison (helpers.py) --------------------- *)
Abs(x) == IF x < 0 THEN -x ELSE x

\* helpers.png_to_array: raises on a file that is not an image
png_to_array_raises(f) == f.kind = "undecodable"

\* helpers.compute_metrics: ssim in hundredths, mse; raises (ValueError of
\* structural_similarity) when an image is smaller than the window
compute_metrics_raises(a, b) == a.kind = "too_small" \/ b.kind = "too_small"
compute_metrics(a, b) ==
  [ssim |-> 100 - 8 * Abs(a.px - b.px),
   mse |-> (a.px - b.px) * (a.px - b.px)]

\* a plausible slip: strict comparison with the threshold
classify_strict(s, threshold) == IF s > threshold THEN "ok" ELSE "fail"

\* the classification of run_and_compare (line 142)
classify(s, threshold) == IF s >= threshold THEN "ok" ELSE "fail"

diff_name(name) == S_diff_ \o name

(* ------------------------------- state -------------------------------- *)
VARIABLES
  urls_exists,     \* does the URL list file exist
  urls_lines,      \* its lines (splitlines)
  fs,              \* the PNG files of each directory: name -> file
  pc,              \* position of the /run handler
  shots_dir, base_dir, diffs_dir, ssim_threshold,   \* resolved parameters
  exec_details,    \* what run_script returned
  urls, per_item, totals,                           \* the comparison pass
  result,          \* what the handler returned
  cpc,             \* position of the capture process (screenshot_urls.main)
  cap_urls,        \* main's urls
  cur,             \* index of the URL main's loop is at
  driver,          \* the browser session: "none", "open", "quit"
  sessions,        \* number of browser sessions created
  raised,          \* an exception is propagating out of main's loop
  returncode,      \* exit status of the capture process, -1 while it has none
  attempted,       \* URLs screenshot_url was called for
  base0,           \* the baseline directory when the request arrived
  out0,            \* the output directory when the request arrived
  diffs_written,   \* names of the diff images written by this request
  cmp_log,         \* per compared URL: what the comparison did
  unlink_failed,   \* names whose unlink raised in every purge run so far
  out_dir,         \* main's out_dir (--out)
  phases,          \* phases screenshot_url has gone through for the current URL
  cap_written,     \* per file name: the URL and image of the last capture write
  overwrote,       \* names where a capture replaced the capture of another URL
  requests,        \* number of requests the service has accepted
  now,             \* the clock, in seconds, as last read by write_report
  reports,         \* the reports directory: timestamp of the name -> content
  report_log,      \* per report written: its path and its content
  gs_pc,           \* position of a call of gentle_scroll
  steps, last_height, height, new_height,           \* gentle_scroll's locals
  prev_height,     \* last_height as it was when new_height was read
  scrolled,        \* number of scrollTo calls of the loop's steps
  jumped,          \* targets of the final scrollTo calls
  arg,             \* a string handed to the file-name functions
  h_keys,          \* results of the calls of helpers.sanitize_filename(arg)
  su_keys,         \* results of the calls of screenshot_urls.sanitize_filename(arg)
  ctl_names,       \* file names the comparison pass derives for the line arg
  cap_names,       \* file names the capture process derives for the line arg
  traced           \* is the history of phases recorded

rep_vars == <<requests, now, reports, report_log>>
ctl_vars == <<pc, shots_dir, base_dir, diffs_dir, ssim_threshold, exec_details,
              urls, per_item, totals, result, base0, out0, diffs_written, cmp_log,
              rep_vars>>
cap_ghost == <<cap_written, overwrote>>
cap_vars == <<cpc, cap_urls, cur, driver, sessions, raised, returncode, attempted,
              out_dir, phases, cap_ghost>>
scroll_vars == <<gs_pc, steps, last_height, height, new_height, prev_height,
                 scrolled, jumped>>
key_vars == <<arg, h_keys, su_keys, ctl_names, cap_names>>
aux_vars == <<scroll_vars, key_vars, traced>>
prog_vars == <<urls_exists, urls_lines, fs, ctl_vars, cap_vars, unlink_failed>>
vars == <<prog_vars, aux_vars>>

\* the service before a request: whether the URL list file exists is drawn
\* from exists, its lines from files, the output and baseline directories
\* from outs and trainers; tr is whether phases is recorded
InitProgram(exists, files, outs, trainers, tr) ==
  /\ traced = tr
  /\ urls_exists \in exists
  /\ urls_lines \in (IF urls_exists THEN files ELSE {<<>>})
  /\ fs \in {[d \in Dirs |-> IF d = DIR_OUT THEN o
                            ELSE IF d = DIR_TRAINER THEN t
                            ELSE RemoveFiles(o, DOMAIN o)]
               : o \in outs, t \in trainers}
  /\ pc = "idle"
  /\ shots_dir = None /\ base_dir = None /\ diffs_dir = None
  /\ ssim_threshold = DefaultThreshold
  /\ exec_details = None
  /\ urls = <<>> /\ per_item = <<>>
  /\ totals = [ok |-> 0, warn |-> 0, fail |-> 0, no_trainer |-> 0]
  /\ result = None
  /\ cpc = "off" /\ cap_urls = <<>> /\ cur = 0
  /\ driver = "none" /\ sessions = 0 /\ raised = FALSE /\ returncode = -1
  /\ attempted = <<>>
  /\ base0 = fs[DIR_TRAINER]
  /\ out0 = <<>>
  /\ diffs_written = {}
  /\ cmp_log = <<>>
  /\ unlink_failed = {}
  /\ out_dir = None /\ phases = <<>> /\ cap_written = <<>> /\ overwrote = {}
  /\ requests = 0 /\ now = 0 /\ reports = <<>> /\ report_log = <<>>

\* no call of gentle_scroll in progress
ScrollOff ==
  /\ gs_pc = "off" /\ steps = 0 /\ last_height = 0 /\ height = 0
  /\ new_height = 0 /\ prev_height = 0
  /\ scrolled = 0 /\ jumped = <<>>

\* no string handed to the file-name functions
KeysOff ==
  /\ arg = <<>> /\ h_keys = <<>> /\ su_keys = <<>>
  /\ ctl_names = <<>> /\ cap_names = <<>>

Init ==
  /\ InitProgram(BOOLEAN, UrlFiles, InitOutDirs, InitTrainerDirs, FALSE)
  /\ ScrollOff /\ KeysOff

(* ------------------- capture process (screenshot_urls.py) ------------- *)
\* main, up to the creation of the output directory
CapStart ==
  /\ cpc = "start"
  /\ IF ~urls_exists \/ read_urls(urls_lines) = <<>>
       THEN /\ cpc' = "exited"
            /\ returncode' = 1
            /\ cap_urls' = IF urls_exists THEN read_urls(urls_lines) ELSE <<>>
       ELSE /\ cpc' = "purge"
            /\ cap_urls' = read_urls(urls_lines)
            /\ UNCHANGED returncode
  /\ UNCHANGED <<aux_vars, unlink_failed, urls_exists, urls_lines, fs, ctl_vars,
                 cur, driver, sessions, raised, attempted, out_dir, phases, cap_ghost>>

\* main: clear old screenshots; a file whose unlink raises is left in place
CapPurge ==
  /\ cpc = "purge"
  /\ \E kept \in SUBSET (DOMAIN fs[out_dir]) :
       /\ fs' = [fs EXCEPT ![out_dir] = RemoveFiles(@, (DOMAIN @) \ kept)]
       /\ unlink_failed' = unlink_failed \cap kept
  /\ cpc' = "build"
  /\ UNCHANGED <<aux_vars, urls_exists, urls_lines, ctl_vars,
                 cap_urls, cur, driver, sessions, raised, returncode, attempted,
                 out_dir, phases, cap_ghost>>

\* build_driver, called outside main's try block
build_driver ==
  /\ cpc = "build"
  /\ \E outcome \in {"ok", "chrome_raises", "page_enable_raises"} :
       CASE outcome = "ok" ->
              /\ driver' = "open" /\ sessions' = sessions + 1
              /\ cpc' = "loop" /\ cur' = 1
              /\ UNCHANGED returncode
         [] outcome = "chrome_raises" ->
              /\ cpc' = "exited" /\ returncode' = 1
              /\ UNCHANGED <<driver, sessions, cur>>
         [] outcome = "page_enable_raises" ->
              /\ driver' = "open" /\ sessions' = sessions + 1
              /\ cpc' = "exited" /\ returncode' = 1
              /\ UNCHANGED cur
  /\ UNCHANGED <<aux_vars, unlink_failed, urls_exists, urls_lines, fs, ctl_vars,
                 cap_urls, raised, attempted, out_dir, phases, cap_ghost>>

\* the url main's loop is at, scheme ensured
cur_url == ensure_scheme(cap_urls[cur])

\* main's for loop: next url or leave the try block
LoopNext ==
  /\ cpc = "loop"
  /\ IF cur <= Len(cap_urls)
       THEN /\ attempted' = Append(attempted, cur_url)
            /\ cpc' = "navigate"
       ELSE /\ cpc' = "finally"
            /\ UNCHANGED attempted
  /\ phases' = <<>>
  /\ UNCHANGED <<aux_vars, unlink_failed, urls_exists, urls_lines, fs, ctl_vars,
                 cap_urls, cur, driver, sessions, raised, returncode,
                 out_dir, cap_ghost>>

\* phases after phase p of screenshot_url has run
Phase(p) == IF traced THEN Append(phases, p) ELSE phases

\* an exception leaves screenshot_url and main's loop
Propagate ==
  /\ raised' = TRUE
  /\ cpc' = "finally"

\* screenshot_url: driver.get(url)
Navigate ==
  /\ cpc = "navigate"
  /\ \E outcome \in {"ok", "raises"} :
       IF outcome = "ok" THEN cpc' = "wait" /\ UNCHANGED raised ELSE Propagate
  /\ phases' = Phase("navigate")
  /\ UNCHANGED <<aux_vars, unlink_failed, urls_exists, urls_lines, fs, ctl_vars,
                 cap_urls, cur, driver, sessions, returncode, attempted,
                 out_dir, cap_ghost>>

\* a plausible slip: the TimeoutException not caught
wait_propagates_timeout(outcome) == outcome # "complete"

\* lines 120-123: does the outcome of wait_for_load leave screenshot_url
\* (only TimeoutException is caught)
wait_propagates(outcome) == outcome = "raises"

\* screenshot_url: wait_for_load inside try/except TimeoutException
WaitForLoad ==
  /\ cpc = "wait"
  /\ \E outcome \in {"complete", "timeout", "raises"} :
       /\ IF wait_propagates(outcome)
            THEN Propagate ELSE cpc' = "settle" /\ UNCHANGED raised
       /\ phases' = Phase(IF outcome = "timeout" THEN "wait_timeout" ELSE "wait")
  /\ UNCHANGED <<aux_vars, unlink_failed, urls_exists, urls_lines, fs, ctl_vars,
                 cap_urls, cur, driver, sessions, returncode, attempted,
                 out_dir, cap_ghost>>

\* screenshot_url: time.sleep(extra_wait)
Settle ==
  /\ cpc = "settle"
  /\ cpc' = "scroll"
  /\ phases' = Phase("settle")
  /\ UNCHANGED <<aux_vars, unlink_failed, urls_exists, urls_lines, fs, ctl_vars,
                 cap_urls, cur, driver, sessions, raised, returncode, attempted,
                 out_dir, cap_ghost>>

\* screenshot_url: gentle_scroll(driver)
Scroll ==
  /\ cpc = "scroll"
  /\ \E outcome \in {"ok", "raises"} :
       IF outcome = "ok" THEN cpc' = "capture" /\ UNCHANGED raised ELSE Propagate
  /\ phases' = Phase("scroll")
  /\ UNCHANGED <<aux_vars, unlink_failed, urls_exists, urls_lines, fs, ctl_vars,
                 cap_urls, cur, driver, sessions, returncode, attempted,
                 out_dir, cap_ghost>>

\* screenshot_url: capture and write inside try/except WebDriverException
Capture ==
  /\ cpc = "capture"
  /\ \/ \E png \in CaptureResults :
          LET name == su_sanitize_filename(cur_url, DefaultMaxLen)
          IN /\ fs' = [fs EXCEPT ![out_dir] = WriteFile(@, name, png)]
             /\ cap_written' = (name :> [url |-> cur_url, png |-> png]) @@ cap_written
             /\ overwrote' = IF /\ name \in DOMAIN cap_written
                                /\ cap_written[name].url # cur_url
                               THEN overwrote \cup {name} ELSE overwrote
             /\ cpc' = "loop" /\ cur' = cur + 1
             /\ UNCHANGED raised
     \/ \E outcome \in {"webdriver_exception", "other_exception"} :
          /\ IF outcome = "webdriver_exception"
               THEN cpc' = "loop" /\ cur' = cur + 1 /\ UNCHANGED raised
               ELSE Propagate /\ UNCHANGED cur
          /\ UNCHANGED <<fs, cap_ghost>>
  /\ phases' = Phase("capture")
  /\ UNCHANGED <<aux_vars, unlink_failed, urls_exists, urls_lines, ctl_vars,
                 cap_urls, driver, sessions, returncode, attempted, out_dir>>

\* main: finally: driver.quit(), then the process ends
Finally ==
  /\ cpc = "finally"
  /\ driver' = "quit"
  /\ returncode' = IF raised THEN 1 ELSE 0
  /\ cpc' = "exited"
  /\ phases' = <<>>
  /\ UNCHANGED <<aux_vars, unlink_failed, urls_exists, urls_lines, fs, ctl_vars,
                 cap_urls, cur, sessions, raised, attempted, out_dir, cap_ghost>>

CaptureProcess ==
  \/ CapStart \/ CapPurge \/ build_driver \/ LoopNext \/ Navigate
  \/ WaitForLoad \/ Settle \/ Scroll \/ Capture \/ Finally

(* --------------- /run (screenshots_controller.run_and_compare) -------- *)
Path(dir, name) == <<dir, name>>
\* a null path in an item
NoPath == <<>>

\* a plausible slip: the check of lines 86-87 left out
RunRequestWith_no_check(out_dirs) ==
  /\ pc = "idle"
  /\ \E o \in out_dirs, t \in TrainerDirParams, d \in DiffDirParams,
        th \in Thresholds :
       /\ shots_dir' = o /\ base_dir' = t /\ diffs_dir' = d
       /\ ssim_threshold' = th
       /\ out0' = fs[o]
  /\ requests' = requests + 1
  /\ pc' = "purge"
  /\ UNCHANGED <<aux_vars, unlink_failed, urls_exists, urls_lines, fs, exec_details, urls, per_item,
                 totals, base0, diffs_written, cmp_log, cap_vars, result,
                 now, reports, report_log>>

\* lines 77-87: resolve the parameters, ensure the directories, check the
\* file; out_dir is drawn from out_dirs
RunRequestWith(out_dirs) ==
  /\ pc = "idle"
  /\ \E o \in out_dirs, t \in TrainerDirParams, d \in DiffDirParams,
        th \in Thresholds :
       /\ shots_dir' = o /\ base_dir' = t /\ diffs_dir' = d
       /\ ssim_threshold' = th
       /\ out0' = fs[o]
  /\ requests' = requests + 1
  /\ IF ~urls_exists
       THEN /\ result' = [ok |-> FALSE, error |-> "URLs file not found"]
            /\ pc' = "done"
       ELSE /\ pc' = "purge"
            /\ UNCHANGED result
  /\ UNCHANGED <<aux_vars, unlink_failed, urls_exists, urls_lines, fs, exec_details, urls, per_item,
                 totals, base0, diffs_written, cmp_log, cap_vars,
                 now, reports, report_log>>

\* a request with the default directories
RunRequest == RunRequestWith(OutDirParams)

\* a request whose out_dir may also name the baseline directory
RunRequestAnyDir == RunRequestWith(AnyOutDirParams)

\* a plausible slip: the purge of lines 89-94 left out
CleanShots_skipped ==
  /\ pc = "purge"
  /\ unlink_failed' = {}
  /\ pc' = "run_script"
  /\ UNCHANGED <<aux_vars, urls_exists, urls_lines, fs, shots_dir, base_dir, diffs_dir,
                 ssim_threshold, exec_details, urls, per_item, totals, result,
                 base0, out0, diffs_written, cmp_log, cap_vars, rep_vars>>

\* lines 89-94: clean the screenshots directory; unlink errors are swallowed
CleanShots ==
  /\ pc = "purge"
  /\ \E kept \in SUBSET (DOMAIN fs[shots_dir]) :
       /\ fs' = [fs EXCEPT ![shots_dir] = RemoveFiles(@, (DOMAIN @) \ kept)]
       /\ unlink_failed' = kept
  /\ pc' = "run_script"
  /\ UNCHANGED <<aux_vars, urls_exists, urls_lines, shots_dir, base_dir, diffs_dir,
                 ssim_threshold, exec_details, urls, per_item, totals, result,
                 base0, out0, diffs_written, cmp_log, cap_vars, rep_vars>>

\* helpers.run_script called at position here of a handler with the output
\* directory out: start the capture process ...
run_script_start_at(here, there, out) ==
  /\ pc = here
  /\ cpc = "off"
  /\ cpc' = "start"
  /\ out_dir' = out
  /\ pc' = there
  /\ UNCHANGED <<aux_vars, unlink_failed, urls_exists, urls_lines, fs, shots_dir, base_dir, diffs_dir,
                 ssim_threshold, exec_details, urls, per_item, totals, result,
                 base0, out0, diffs_written, cmp_log, rep_vars,
                 cap_urls, cur, driver, sessions, raised, returncode, attempted,
                 phases, cap_ghost>>

\* line 96 of run_and_compare
run_script_start == run_script_start_at("run_script", "in_script", shots_dir)

\* a plausible slip: the exit status of the capture process not looked at
run_script_always_ok(rc) == [ok |-> TRUE, returncode |-> rc]

\* helpers.run_script, lines 91-96: what it returns for the exit status rc
\* (stdout and stderr are not modelled)
run_script(rc) == [ok |-> (rc = 0), returncode |-> rc]

\* a plausible slip: the capture process started without waiting for it
\* (Popen instead of run)
run_script_return_no_wait ==
  /\ pc = "in_script"
  /\ cpc # "off"
  /\ exec_details' = run_script(returncode)
  /\ urls' = list_urls(urls_lines)
  /\ per_item' = <<>>
  /\ totals' = [ok |-> 0, warn |-> 0, fail |-> 0, no_trainer |-> 0]
  /\ pc' = "compare"
  /\ UNCHANGED <<aux_vars, unlink_failed, urls_exists, urls_lines, fs, shots_dir, base_dir, diffs_dir,
                 ssim_threshold, result, base0, out0, diffs_written, cmp_log, cap_vars,
                 rep_vars>>

\* ... and wait for it to end; then lines 98-100 of run_and_compare
run_script_return ==
  /\ pc = "in_script"
  /\ cpc = "exited"
  /\ exec_details' = run_script(returncode)
  /\ urls' = list_urls(urls_lines)
  /\ per_item' = <<>>
  /\ totals' = [ok |-> 0, warn |-> 0, fail |-> 0, no_trainer |-> 0]
  /\ pc' = "compare"
  /\ UNCHANGED <<aux_vars, unlink_failed, urls_exists, urls_lines, fs, shots_dir, base_dir, diffs_dir,
                 ssim_threshold, result, base0, out0, diffs_written, cmp_log, cap_vars,
                 rep_vars>>

\* a plausible slip: the current capture checked before the baseline
branch_current_first(has_base, has_cur) ==
  IF ~has_cur THEN "no_current"
  ELSE IF ~has_base THEN "no_trainer"
  ELSE "compare"

\* lines 107 and 121: which branch the loop body takes
branch(has_base, has_cur) ==
  IF ~has_base THEN "no_trainer"
  ELSE IF ~has_cur THEN "no_current"
  ELSE "compare"

\* a plausible slip: the test of line 145 inverted
needs_diff_inverted(status) == status = "ok"

\* line 145: is the difference image saved
needs_diff(status) == status # "ok"

\* lines 108-117
no_trainer_item(u, name, has_cur, cur_path, base_path) ==
  [url |-> u, status |-> "no_trainer",
   reason |-> [kind |-> "Trainer image not found", about |-> name],
   current |-> IF has_cur THEN cur_path ELSE NoPath,
   trainer |-> base_path]

\* a plausible slip: the item of the no_trainer branch pasted
no_current_item_pasted(u, name, cur_path, base_path) ==
  [url |-> u, status |-> "no_trainer",
   reason |-> [kind |-> "Trainer image not found", about |-> name],
   current |-> cur_path, trainer |-> base_path]

\* lines 122-131
no_current_item(u, name, cur_path, base_path) ==
  [url |-> u, status |-> "fail",
   reason |-> [kind |-> "Current screenshot not found", about |-> name],
   current |-> cur_path, trainer |-> base_path]

\* lines 149-158
metrics_item(u, status, metrics, cur_path, base_path, diff_path) ==
  [url |-> u, status |-> status, metrics |-> metrics,
   current |-> cur_path, trainer |-> base_path, diff |-> diff_path]

\* a plausible slip: the except branch reporting the reserved status
error_item_warn(u, e, cur_path, base_path) ==
  [url |-> u, status |-> "warn",
   reason |-> [kind |-> "Comparison error", about |-> e],
   current |-> cur_path, trainer |-> base_path]

\* lines 161-171: the except branch, e is the call that raised
error_item(u, e, cur_path, base_path) ==
  [url |-> u, status |-> "fail",
   reason |-> [kind |-> "Comparison error", about |-> e],
   current |-> cur_path, trainer |-> base_path]

\* a plausible slip: failed comparisons counted under the reserved status
count_status_fail_as_warn(tot, status) ==
  IF status = "fail" THEN [tot EXCEPT !["warn"] = @ + 1]
  ELSE [tot EXCEPT ![status] = @ + 1]

\* lines 118, 132, 159, 172
count_status(tot, status) == [tot EXCEPT ![status] = @ + 1]

\* what an iteration did besides appending its item: the diff it wrote, the
\* png_to_array calls it made, whether compute_metrics returned and the score,
\* the writer of the current image it scored, the call that raised
Did(item, wrote, decoded, computed, ssim, cur_src, exc) ==
  [item |-> item, wrote |-> wrote, decoded |-> decoded, computed |-> computed,
   ssim |-> ssim, cur_src |-> cur_src, exc |-> exc]

\* lines 104-172: the loop body for url u once its file name is known;
\* save_raises is whether save_diff_image raises if it is called
compare_file(u, name, save_raises) ==
  LET cur_path == Path(shots_dir, name)
      base_path == Path(base_dir, name)
      has_base == name \in DOMAIN fs[base_dir]
      has_cur == name \in DOMAIN fs[shots_dir]
      fileA == fs[base_dir][name]
      fileB == fs[shots_dir][name]
      br == branch(has_base, has_cur)
  IN IF br = "no_trainer" THEN
       Did(no_trainer_item(u, name, has_cur, cur_path, base_path),
           FALSE, 0, FALSE, 0, None, None)
     ELSE IF br = "no_current" THEN
       Did(no_current_item(u, name, cur_path, base_path),
           FALSE, 0, FALSE, 0, None, None)
     ELSE IF ~has_base \/ png_to_array_raises(fileA) THEN
       Did(error_item(u, "png_to_array(base_path)", cur_path, base_path),
           FALSE, 1, FALSE, 0, None, "png_to_array(base_path)")
     ELSE IF ~has_cur \/ png_to_array_raises(fileB) THEN
       Did(error_item(u, "png_to_array(cur_path)", cur_path, base_path),
           FALSE, 2, FALSE, 0, None, "png_to_array(cur_path)")
     ELSE IF compute_metrics_raises(fileA, fileB) THEN
       Did(error_item(u, "compute_metrics", cur_path, base_path),
           FALSE, 2, FALSE, 0, None, "compute_metrics")
     ELSE
       LET metrics == compute_metrics(fileA, fileB)
           status == classify(metrics.ssim, ssim_threshold)
           diff_path == IF needs_diff(status)
                          THEN Path(diffs_dir, diff_name(name)) ELSE NoPath
       IN IF needs_diff(status) /\ save_raises THEN
            Did(error_item(u, "save_diff_image", cur_path, base_path),
                FALSE, 2, TRUE, metrics.ssim, fileB.src, "save_diff_image")
          ELSE
            Did(metrics_item(u, status, metrics, cur_path, base_path, diff_path),
                needs_diff(status), 2, TRUE, metrics.ssim, fileB.src, None)

\* one iteration of the loop of lines 102-172 for url u
compare_url(u, save_raises) ==
  compare_file(u, sanitize_filename(u, DefaultMaxLen), save_raises)

\* the loop body of lines 102-172, for the next url
CompareUrl ==
  /\ pc = "compare"
  /\ Len(per_item) < Len(urls)
  /\ \E save_raises \in BOOLEAN :
     \E r \in {compare_url(urls[Len(per_item) + 1], save_raises)} :
       LET dname == diff_name(sanitize_filename(urls[Len(per_item) + 1],
                                               DefaultMaxLen))
       IN /\ per_item' = Append(per_item, r.item)
          /\ totals' = count_status(totals, r.item.status)
          /\ fs' = IF r.wrote
                     THEN [fs EXCEPT ![diffs_dir] =
                             WriteFile(@, dname, File("img", 0, "diff"))]
                     ELSE fs
          /\ diffs_written' = IF r.wrote THEN diffs_written \cup {dname}
                              ELSE diffs_written
          /\ cmp_log' = Append(cmp_log, [wrote |-> r.wrote, decoded |-> r.decoded,
                                         computed |-> r.computed, ssim |-> r.ssim,
                                         cur_src |-> r.cur_src, exc |-> r.exc])
  /\ UNCHANGED <<aux_vars, unlink_failed, urls_exists, urls_lines, pc, shots_dir, base_dir, diffs_dir,
                 ssim_threshold, exec_details, urls, result, base0, out0, cap_vars,
                 rep_vars>>

\* helpers.write_report, line 101-102: the name of the report written at
\* second ts; strftime("%Y%m%d-%H%M%S") has the resolution of one second
report_path(ts) == <<"report-", ts, ".json">>

\* lines 174-186: build the report, write it (helpers.write_report: the
\* clock is read, at a second of times not before the last reading; write_text
\* replaces a file of that name) and return it
WriteReportAt(times) ==
  /\ pc = "compare"
  /\ Len(per_item) = Len(urls)
  /\ \E ts \in times :
       LET report == [ssim_threshold |-> ssim_threshold,
                      screenshots_dir |-> shots_dir, trainer_dir |-> base_dir,
                      diff_dir |-> diffs_dir,
                      execution |-> exec_details, totals |-> totals,
                      items |-> per_item]
       IN /\ ts >= now
          /\ now' = ts
          /\ reports' = WriteFile(reports, report_path(ts), report)
          /\ report_log' = Append(report_log, [path |-> report_path(ts),
                                               content |-> report])
          /\ result' = report
  /\ pc' = "done"
  /\ requests' = requests
  /\ UNCHANGED <<aux_vars, unlink_failed, urls_exists, urls_lines, fs, shots_dir, base_dir, diffs_dir,
                 ssim_threshold, exec_details, urls, per_item, totals,
                 base0, out0, diffs_written, cmp_log, cap_vars>>

\* the report of a service that answers one request, at second 0
WriteReport == WriteReportAt({0})

RunHandler ==
  \/ RunRequest \/ CleanShots \/ run_script_start \/ run_script_return
  \/ CompareUrl \/ WriteReport

Next == RunHandler \/ CaptureProcess

\* requests with the default directories
Spec == Init /\ [][Next]_vars

NextAnyDir ==
  \/ RunRequestAnyDir \/ CleanShots \/ run_script_start \/ run_script_return
  \/ CompareUrl \/ WriteReport
  \/ CaptureProcess

\* requests whose output directory may be the baseline directory
SpecAnyDir == Init /\ [][NextAnyDir]_vars

(* ------------ /trainer (screenshots_controller.create_trainer_images) - *)
\* lines 36-41: resolve the parameters, ensure the directory, check the
\* file; base_dir holds the handler's trainer_dir
TrainerRequest ==
  /\ pc = "idle"
  /\ \E t \in TrainerDirParams : base_dir' = t
  /\ requests' = requests + 1
  /\ IF ~urls_exists
       THEN /\ result' = [ok |-> FALSE, error |-> "URLs file not found"]
            /\ pc' = "t_done"
       ELSE /\ pc' = "t_purge"
            /\ UNCHANGED result
  /\ UNCHANGED <<aux_vars, unlink_failed, urls_exists, urls_lines, fs, shots_dir, diffs_dir,
                 ssim_threshold, exec_details, urls, per_item, totals,
                 base0, out0, diffs_written, cmp_log, cap_vars,
                 now, reports, report_log>>

\* lines 43-48: clear the trainer directory; unlink errors are swallowed
TrainerPurge ==
  /\ pc = "t_purge"
  /\ \E kept \in SUBSET (DOMAIN fs[base_dir]) :
       /\ fs' = [fs EXCEPT ![base_dir] = RemoveFiles(@, (DOMAIN @) \ kept)]
       /\ unlink_failed' = kept
  /\ pc' = "t_run_script"
  /\ UNCHANGED <<aux_vars, urls_exists, urls_lines, shots_dir, base_dir, diffs_dir,
                 ssim_threshold, exec_details, urls, per_item, totals, result,
                 base0, out0, diffs_written, cmp_log, cap_vars, rep_vars>>

\* line 50: run_script with the trainer directory as output directory
trainer_run_script_start ==
  run_script_start_at("t_run_script", "t_in_script", base_dir)

\* lines 50-51: run_script returns, the handler returns its result
TrainerReturn ==
  /\ pc = "t_in_script"
  /\ cpc = "exited"
  /\ exec_details' = run_script(returncode)
  /\ result' = [ok |-> run_script(returncode).ok,
                details |-> run_script(returncode), trainer_dir |-> base_dir]
  /\ pc' = "t_done"
  /\ UNCHANGED <<aux_vars, unlink_failed, urls_exists, urls_lines, fs, shots_dir, base_dir, diffs_dir,
                 ssim_threshold, urls, per_item, totals,
                 base0, out0, diffs_written, cmp_log, cap_vars, rep_vars>>

TrainerHandler ==
  \/ TrainerRequest \/ TrainerPurge \/ trainer_run_script_start \/ TrainerReturn

\* URL list files of at most two lines: no entry, one entry, a comment and
\* an entry
ShortFiles == {<<>>, <<L_a>>, <<L_comment, L_HTTP_b>>}

InitEndpoints ==
  /\ InitProgram(BOOLEAN, ShortFiles, InitOutDirs, InitTrainerDirs, FALSE)
  /\ ScrollOff /\ KeysOff

NextEndpoints == RunHandler \/ TrainerHandler \/ CaptureProcess

\* one request to /run or to /trainer
SpecEndpoints == InitEndpoints /\ [][NextEndpoints]_vars

(* --------------------- gentle_scroll (screenshot_urls.py) ------------- *)
Min(a, b) == IF a < b THEN a ELSE b

\* what document.body.scrollHeight can be when the offset is last: the
\* document ends there, or it has (or has grown by) two more steps of content
PageHeights(last) == {last, last + 2 * ScrollStep}

\* what window.pageYOffset can read after scrollTo(0, target): the target, the
\* old offset (the page did not move) or 0 (the page scrolled itself back)
Readbacks(target, last) == {target, last, 0}

\* a plausible slip: the break of lines 73-77 left out
stalled_never(new, last) == FALSE

\* line 73: has the offset stopped advancing
stalled(new, last) == new = last

\* a call gentle_scroll(driver): lines 65-66
gentle_scroll_call ==
  /\ gs_pc = "off"
  /\ gs_pc' = "loop"
  /\ last_height' = 0
  /\ steps' = 0
  /\ UNCHANGED <<prog_vars, key_vars, traced, height, new_height, prev_height,
                 scrolled, jumped>>

\* one iteration of the loop, lines 67-78; an execute_script call may raise
gentle_scroll_step ==
  /\ gs_pc = "loop"
  /\ steps < DefaultMaxSteps
  /\ \/ \E h \in PageHeights(last_height) :
          \E new \in Readbacks(Min(last_height + ScrollStep, h), last_height) :
            /\ height' = h
            /\ scrolled' = scrolled + 1
            /\ new_height' = new
            /\ prev_height' = last_height
            /\ steps' = steps + 1
            /\ IF stalled(new, last_height)
                 THEN /\ jumped' = Append(jumped, h)
                      /\ gs_pc' = "returned"
                      /\ UNCHANGED last_height
                 ELSE /\ last_height' = new
                      /\ UNCHANGED <<jumped, gs_pc>>
     \/ /\ gs_pc' = "raised"
        /\ UNCHANGED <<steps, last_height, height, new_height, prev_height,
                       scrolled, jumped>>
  /\ UNCHANGED <<prog_vars, key_vars, traced>>

\* line 67: the loop ends because steps has reached max_steps
gentle_scroll_exit ==
  /\ gs_pc = "loop"
  /\ ~(steps < DefaultMaxSteps)
  /\ gs_pc' = "returned"
  /\ UNCHANGED <<prog_vars, key_vars, traced, steps, last_height, height,
                 new_height, prev_height, scrolled, jumped>>

\* the service at rest, with empty directories
InitAtRest ==
  InitProgram({FALSE}, {<<>>}, {o \in InitOutDirs : DOMAIN o = {}},
              {t \in InitTrainerDirs : DOMAIN t = {}}, FALSE)

InitScroll == InitAtRest /\ ScrollOff /\ KeysOff

NextScroll == gentle_scroll_call \/ gentle_scroll_step \/ gentle_scroll_exit

\* one call of gentle_scroll on a page of any behaviour
SpecScroll == InitScroll /\ [][NextScroll]_vars

(* ------------------- the file-name functions on strings --------------- *)
\* characters of the varied part: a safe one, the underscore, an unsafe one
\* and the comment mark; white space comes with the prefixes
KeyAlphabet == {"a", "_", "/", "#"}
S_http_prefix == <<"h","t","t","p",":","/","/">>
S_HTTP_prefix == <<"H","T","T","P",":","/","/">>
Prefixes == {<<>>, <<" ">>, S_http_prefix, S_https_prefix, S_HTTP_prefix,
             <<" ">> \o S_https_prefix}

\* a run of safe characters that ends two short of the length limit, so that
\* the varied part lies across the place where the name is cut
Filler == [k \in 1..(DefaultMaxLen - 2) |-> "a"]

KeyInputs ==
  {p \o f \o b : p \in Prefixes, f \in {<<>>, Filler},
                 b \in SeqsUpTo(KeyAlphabet, MaxBody)}

\* one more call helpers.sanitize_filename(arg)
call_sanitize_filename ==
  /\ Len(h_keys) < 2
  /\ h_keys' = Append(h_keys, sanitize_filename(arg, DefaultMaxLen))
  /\ UNCHANGED <<prog_vars, scroll_vars, traced, arg, su_keys, ctl_names, cap_names>>

\* one more call screenshot_urls.sanitize_filename(arg)
call_su_sanitize_filename ==
  /\ Len(su_keys) < 2
  /\ su_keys' = Append(su_keys, su_sanitize_filename(arg, DefaultMaxLen))
  /\ UNCHANGED <<prog_vars, scroll_vars, traced, arg, h_keys, ctl_names, cap_names>>

\* the names the comparison looks up for a URL list file whose one line is
\* arg: run_and_compare lines 98, 102-103
compare_names ==
  /\ ctl_names = <<>>
  /\ LET listed == list_urls(<<arg>>)
     IN ctl_names' =
          <<[k \in 1..Len(listed) |-> sanitize_filename(listed[k], DefaultMaxLen)]>>
  /\ UNCHANGED <<prog_vars, scroll_vars, traced, arg, h_keys, su_keys, cap_names>>

\* the names the capture process writes for the same file: read_urls, main's
\* loop lines 174-178, screenshot_url line 135
capture_names ==
  /\ cap_names = <<>>
  /\ LET kept == read_urls(<<arg>>)
     IN cap_names' =
          <<[k \in 1..Len(kept) |->
               su_sanitize_filename(ensure_scheme(kept[k]), DefaultMaxLen)]>>
  /\ UNCHANGED <<prog_vars, scroll_vars, traced, arg, h_keys, su_keys, ctl_names>>

InitKeys ==
  /\ InitAtRest
  /\ ScrollOff
  /\ arg \in KeyInputs
  /\ h_keys = <<>> /\ su_keys = <<>> /\ ctl_names = <<>> /\ cap_names = <<>>

NextKeys ==
  \/ call_sanitize_filename
  \/ call_su_sanitize_filename
  \/ compare_names
  \/ capture_names

\* the file-name functions applied to one string
SpecKeys == InitKeys /\ [][NextKeys]_vars

(* ------------------ lists of two URLs, phases recorded ---------------- *)
L_http_a == <<"h","t","t","p",":","/","/","a">>

\* URL list files of two entries: one address without scheme (defaulted to
\* https://) and with http://, which map to one file name, and two addresses
\* with different file names
TwoUrlFiles == {<<L_a, L_http_a>>, <<L_a, L_HTTP_b>>}

InitTraced ==
  /\ InitProgram({TRUE}, TwoUrlFiles, InitOutDirs, InitTrainerDirs, TRUE)
  /\ ScrollOff /\ KeysOff

\* one request to /run over a list of two URLs
SpecTraced == InitTraced /\ [][Next]_vars

(* ----------------------- requests one after the other ---------------- *)
\* the seconds the clock can show
Seconds == 0..MaxClock

\* the report of a request, written at whatever second the clock shows
WriteReportAnyTime == WriteReportAt(Seconds)

\* the handler has returned and the capture process it ran is gone: the
\* service waits for the next request, with the files the last one left
NextRequest ==
  /\ pc = "done"
  /\ requests < MaxRuns
  /\ pc' = "idle"
  /\ shots_dir' = None /\ base_dir' = None /\ diffs_dir' = None
  /\ ssim_threshold' = DefaultThreshold
  /\ exec_details' = None
  /\ urls' = <<>> /\ per_item' = <<>>
  /\ totals' = [ok |-> 0, warn |-> 0, fail |-> 0, no_trainer |-> 0]
  /\ result' = None
  /\ cpc' = "off" /\ cap_urls' = <<>> /\ cur' = 0
  /\ driver' = "none" /\ sessions' = 0 /\ raised' = FALSE /\ returncode' = -1
  /\ attempted' = <<>>
  /\ base0' = fs[DIR_TRAINER]
  /\ out0' = <<>>
  /\ diffs_written' = {}
  /\ cmp_log' = <<>>
  /\ unlink_failed' = {}
  /\ out_dir' = None /\ phases' = <<>> /\ cap_written' = <<>> /\ overwrote' = {}
  /\ UNCHANGED <<aux_vars, urls_exists, urls_lines, fs, rep_vars>>

\* URL list files for a service that handles several requests: no entry
\* (the capture process exits at once) and one entry
RunFiles == {<<L_comment>>, <<L_a>>}

InitRuns ==
  /\ InitProgram({TRUE}, RunFiles, InitOutDirs, {t \in InitTrainerDirs : Key_b \notin DOMAIN t}, FALSE)
  /\ ScrollOff /\ KeysOff

NextRuns ==
  \/ RunRequest \/ CleanShots \/ run_script_start \/ run_script_return
  \/ CompareUrl \/ WriteReportAnyTime
  \/ CaptureProcess
  \/ NextRequest

\* up to MaxRuns requests to /run, one after the other
SpecRuns == InitRuns /\ [][NextRuns]_vars

(* ------------------------------- claims ------------------------------- *)
\* the handler has returned a report (not the "file not found" result)
Reported == pc = "done" /\ urls_exists

\* the comparison pass is running or has run
Compared == pc = "compare" \/ Reported

\* C1: once the capture process has ended after entering main's loop,
\* screenshot_url has been attempted for every URL of the list, whatever
\* failed on the pages before (a failure on one page never aborts the batch).
C1_BatchNeverAborted ==
  (cpc = "exited" /\ driver = "quit") =>
    attempted = [k \in 1..Len(cap_urls) |-> ensure_scheme(cap_urls[k])]

\* C2: when the capture process has ended, at most one browser session was
\* created and a session that was created has been quit.
C2_SessionQuit ==
  cpc = "exited" => (sessions <= 1 /\ driver # "open")

\* is the line of the URL list an entry (neither blank nor a comment)
IsEntry(line) ==
  \E k \in 1..Len(line) :
    /\ line[k] \notin Whitespace
    /\ line[k] # "#"
    /\ \A j \in 1..(k - 1) : line[j] \in Whitespace

\* the entry with the surrounding whitespace removed, scheme defaulted
EntryUrl(line) ==
  LET first == CHOOSE k \in 1..Len(line) : line[k] \notin Whitespace /\
                 \A j \in 1..(k - 1) : line[j] \in Whitespace
      last == CHOOSE k \in 1..Len(line) : line[k] \notin Whitespace /\
                 \A j \in (k + 1)..Len(line) : line[j] \in Whitespace
      text == SubSeq(line, first, last)
  IN IF \E n \in {7, 8} : /\ Len(text) >= n
                          /\ [k \in 1..n |-> ToLower(text[k])] \in
                               {<<"h","t","t","p",":","/","/">>,
                                <<"h","t","t","p","s",":","/","/">>}
       THEN text
       ELSE <<"h","t","t","p","s",":","/","/">> \o text

Entries == SelectSeq(urls_lines, IsEntry)

Statuses == {"ok", "warn", "fail", "no_trainer"}

\* C3: the report has exactly one item per entry of the URL list, in the
\* order of the list; item i carries the scheme-defaulted URL of entry i and
\* one status.
C3_OneItemPerUrl ==
  Reported =>
    /\ Len(result.items) = Len(Entries)
    /\ \A i \in 1..Len(Entries) :
         /\ result.items[i].url = EntryUrl(Entries[i])
         /\ result.items[i].status \in Statuses

\* C3 witness: a report with two items of different verdicts whose first URL
\* had its scheme defaulted
C3_Witness ==
  /\ Reported
  /\ Len(result.items) = 2
  /\ result.items[1].url # urls_lines[1]
  /\ \E i, j \in 1..2 : /\ result.items[i].status = "no_trainer"
                        /\ result.items[j].status = "fail"

\* the Capture Key of item i, derived from the URL the item carries
KeyOf(i) == sanitize_filename(per_item[i].url, DefaultMaxLen)

\* C4: when both images exist and the metrics were computed, the verdict is
\* ok exactly when ssim >= ssim_threshold and fail otherwise; equality
\* classifies as ok.  An item that carries metrics carries that score.
C4_ThresholdClassifies ==
  \A i \in 1..Len(per_item) :
    cmp_log[i].computed =>
      /\ per_item[i].status \in {"ok", "fail"}
      /\ per_item[i].status = "ok" <=> cmp_log[i].ssim >= ssim_threshold
      /\ "metrics" \in DOMAIN per_item[i] =>
           per_item[i].metrics.ssim = cmp_log[i].ssim

\* C4 witness: one pair scoring exactly the threshold classified ok and one
\* pair scoring below it classified fail, with its metrics
C4_Witness ==
  \E i, j \in 1..Len(per_item) :
    /\ cmp_log[i].computed /\ cmp_log[i].ssim = ssim_threshold
    /\ per_item[i].status = "ok"
    /\ cmp_log[j].computed /\ cmp_log[j].ssim < ssim_threshold
    /\ per_item[j].status = "fail" /\ "metrics" \in DOMAIN per_item[j]

\* C5 as claimed: in a report, every URL whose verdict is fail has its diff
\* image written during the run, and no URL whose verdict is ok or no_trainer
\* has one.
C5_EveryFailHasDiff ==
  Reported =>
    \A i \in 1..Len(per_item) :
      /\ per_item[i].status = "fail" => diff_name(KeyOf(i)) \in diffs_written
      /\ per_item[i].status \in {"ok", "no_trainer"} =>
           diff_name(KeyOf(i)) \notin diffs_written

\* C5 amended: every fail item that carries metrics (score below the
\* threshold, diff saved) has diff_<CaptureKey> written to the diff directory
\* during the run and names it; the comparison of a URL whose verdict is ok or
\* no_trainer writes no diff image and its item names none.
C5_FailWithMetricsHasDiff ==
  \A i \in 1..Len(per_item) :
    /\ (per_item[i].status = "fail" /\ "metrics" \in DOMAIN per_item[i]) =>
         /\ diff_name(KeyOf(i)) \in diffs_written
         /\ diff_name(KeyOf(i)) \in DOMAIN fs[diffs_dir]
         /\ fs[diffs_dir][diff_name(KeyOf(i))].src = "diff"
         /\ per_item[i].diff = Path(diffs_dir, diff_name(KeyOf(i)))
    /\ per_item[i].status \in {"ok", "no_trainer"} =>
         /\ ~cmp_log[i].wrote
         /\ "diff" \in DOMAIN per_item[i] => per_item[i].diff = NoPath

\* C5 witness: a report holding a fail item with metrics and an ok item
C5_Witness ==
  /\ Reported
  /\ \E i, j \in 1..Len(per_item) :
       /\ per_item[i].status = "fail" /\ "metrics" \in DOMAIN per_item[i]
       /\ per_item[j].status = "ok"

\* number of items with the status
CountStatus(st) == Cardinality({i \in 1..Len(per_item) : per_item[i].status = st})

\* C6: a URL whose baseline image does not exist gets no_trainer, counted
\* under that total; nothing is decoded, no metrics are computed, no diff is
\* written, whether or not a current capture exists.
C6_MissingBaseline ==
  Compared =>
    /\ \A i \in 1..Len(per_item) :
         KeyOf(i) \notin DOMAIN fs[base_dir] =>
           /\ per_item[i].status = "no_trainer"
           /\ cmp_log[i].decoded = 0
           /\ ~cmp_log[i].computed
           /\ "metrics" \notin DOMAIN per_item[i]
           /\ ~cmp_log[i].wrote
           /\ diff_name(KeyOf(i)) \notin diffs_written
    /\ totals["no_trainer"] = CountStatus("no_trainer")

\* C6 witness: a report with a no_trainer item whose current capture exists
\* and one whose current capture does not
C6_Witness ==
  /\ Reported
  /\ \E i, j \in 1..Len(per_item) :
       /\ KeyOf(i) \notin DOMAIN fs[base_dir] /\ KeyOf(i) \in DOMAIN fs[shots_dir]
       /\ KeyOf(j) \notin DOMAIN fs[base_dir] /\ KeyOf(j) \notin DOMAIN fs[shots_dir]
       /\ per_item[i].current # NoPath /\ per_item[j].current = NoPath

\* C7: a URL whose baseline exists and whose current capture is absent gets
\* fail with a reason naming the missing current file and no metrics field,
\* and the pass goes on: the report still has one item per URL.
C7_MissingCurrent ==
  Compared =>
    /\ \A i \in 1..Len(per_item) :
         (KeyOf(i) \in DOMAIN fs[base_dir] /\ KeyOf(i) \notin DOMAIN fs[shots_dir]) =>
           /\ per_item[i].status = "fail"
           /\ per_item[i].reason =
                [kind |-> "Current screenshot not found", about |-> KeyOf(i)]
           /\ "metrics" \notin DOMAIN per_item[i]
    /\ pc = "done" => Len(per_item) = Len(urls)

\* C7 witness: a report whose first item is the missing-capture fail and
\* whose second item was compared with metrics
C7_Witness ==
  /\ Reported
  /\ Len(per_item) = 2
  /\ KeyOf(1) \in DOMAIN fs[base_dir] /\ KeyOf(1) \notin DOMAIN fs[shots_dir]
  /\ "metrics" \in DOMAIN per_item[2]

\* did the comparison of item i raise, judged from the files it read
RaisedOn(i) ==
  /\ KeyOf(i) \in DOMAIN fs[base_dir]
  /\ KeyOf(i) \in DOMAIN fs[shots_dir]
  /\ LET a == fs[base_dir][KeyOf(i)]
         b == fs[shots_dir][KeyOf(i)]
     IN \/ a.kind # "img"
        \/ b.kind # "img"
        \/ cmp_log[i].exc = "save_diff_image"

\* C8: an exception raised for a URL while decoding, computing metrics or
\* saving the diff becomes exactly one fail item carrying the error, counted
\* once; the later URLs are still compared and the handler returns a report.
C8_ExceptionBecomesFail ==
  Compared =>
    /\ \A i \in 1..Len(per_item) :
         RaisedOn(i) =>
           /\ per_item[i].status = "fail"
           /\ per_item[i].reason.kind = "Comparison error"
           /\ per_item[i].reason.about = cmp_log[i].exc
           /\ "metrics" \notin DOMAIN per_item[i]
    /\ totals["fail"] = CountStatus("fail")
    /\ Len(per_item) <= Len(urls)
    /\ Reported => (Len(result.items) = Len(urls) /\ result.totals = totals)

\* C8 witness: a report whose first item is a comparison error and whose
\* second item was compared after it
C8_Witness ==
  /\ Reported
  /\ Len(per_item) = 2
  /\ RaisedOn(1)
  /\ cmp_log[2].computed

\* C9: the handler never deletes or overwrites an image of the baseline
\* directory, whatever out_dir and trainer_dir are.
C9_BaselineUntouched ==
  pc # "idle" => fs[base_dir] = base0

\* C10: when the comparison pass runs, every PNG of the output directory was
\* written by this run's capture step, and no metrics are computed from an
\* image that was there before the run.
C10_OnlyThisRunsCaptures ==
  Compared =>
    /\ pc = "compare" =>
         \A n \in DOMAIN fs[shots_dir] : fs[shots_dir][n].src = "capture"
    /\ \A i \in 1..Len(per_item) :
         cmp_log[i].computed => cmp_log[i].cur_src = "capture"

\* C10 amended: when the comparison pass runs, an image that was in the
\* output directory before the run is still there only if deleting it raised
\* in every purge that ran (the handler's, and the capture process's when it
\* got that far); so metrics are computed from a capture of this run, or from
\* a leftover whose deletion failed.
C10_LeftoverOnlyIfUnlinkFailed ==
  Compared =>
    /\ \A n \in DOMAIN fs[shots_dir] :
         fs[shots_dir][n].src = "pre" => n \in unlink_failed
    /\ \A i \in 1..Len(per_item) :
         cmp_log[i].computed =>
           \/ cmp_log[i].cur_src = "capture"
           \/ cmp_log[i].cur_src = "pre" /\ KeyOf(i) \in unlink_failed

\* C10 witness: an image of the URL was in the output directory before the
\* run, a purge deleted it and the metrics were computed from this run's
\* capture
C10_Witness ==
  /\ Compared
  /\ \E i \in 1..Len(per_item) :
       /\ cmp_log[i].computed /\ cmp_log[i].cur_src = "capture"
       /\ KeyOf(i) \in DOMAIN out0
       /\ KeyOf(i) \notin unlink_failed

\* C11: when the URL list file does not exist, /run and /trainer return
\* {ok: false, error} straight from the file check: the capture process is
\* never started, no PNG of the output or baseline directory is deleted, no
\* URL is compared and no report is written.
C11_NoFileNoWork ==
  ~urls_exists =>
    /\ pc \in {"idle", "done", "t_done"}
    /\ pc # "idle" => result = [ok |-> FALSE, error |-> "URLs file not found"]
    /\ cpc = "off" /\ sessions = 0 /\ returncode = -1
    /\ fs[DIR_TRAINER] = base0
    /\ pc = "done" => fs[shots_dir] = out0
    /\ per_item = <<>> /\ cmp_log = <<>> /\ diffs_written = {}
    /\ reports = <<>> /\ report_log = <<>>

\* C11 witness: /run has answered for a missing file while both directories
\* held an image
C11_Witness ==
  /\ ~urls_exists /\ pc = "done"
  /\ "error" \in DOMAIN result
  /\ DOMAIN fs[shots_dir] # {} /\ DOMAIN fs[base_dir] # {}

\* C12: execution.ok of a report is true exactly when the capture process
\* exited with status 0; whatever the exit status, the comparison pass has run
\* over every URL of the list and the report written has one item per URL.
C12_ExecutionOkIffExitZero ==
  Reported =>
    /\ cpc = "exited"
    /\ result.execution.returncode = returncode
    /\ result.execution.ok <=> (returncode = 0)
    /\ Len(result.items) = Len(Entries)
    /\ Len(cmp_log) = Len(Entries)
    /\ report_path(now) \in DOMAIN reports
    /\ reports[report_path(now)].items = result.items

\* C12 witness: the session could not be launched, execution.ok is false and
\* the report has two items, one of them scored against an image that was
\* still in the output directory
C12_Witness ==
  /\ Reported
  /\ driver = "none" /\ returncode = 1
  /\ ~result.execution.ok
  /\ Len(result.items) = 2
  /\ \E i \in 1..2 : cmp_log[i].computed

\* C16: the comparison pass of a request reads no image (and tests no file)
\* before the capture process of that request has terminated.
C16_CaptureBeforeCompare ==
  (Compared \/ per_item # <<>> \/ cmp_log # <<>>) =>
    (cpc = "exited" /\ returncode # -1)

\* C16 witness: the first URL has been scored against this run's capture
\* after the capture process went through both URLs
C16_Witness ==
  /\ pc = "compare"
  /\ Len(per_item) = 1 /\ Len(urls) = 2
  /\ cmp_log[1].computed /\ cmp_log[1].cur_src = "capture"
  /\ Len(attempted) = 2

\* C19: in every report each totals counter equals the number of items with
\* that status, the counters add up to the number of items, which is the
\* number of URLs of the list, and the warn counter is 0.
C19_TotalsMatchItems ==
  Reported =>
    /\ DOMAIN result.totals = Statuses
    /\ \A st \in Statuses :
         result.totals[st] =
           Cardinality({i \in 1..Len(result.items) : result.items[i].status = st})
    /\ result.totals["ok"] + result.totals["warn"] + result.totals["fail"]
         + result.totals["no_trainer"] = Len(result.items)
    /\ Len(result.items) = Len(Entries)
    /\ result.totals["warn"] = 0

\* C19 witness: a report of two items with different verdicts, one of them a
\* fail
C19_Witness ==
  /\ Reported
  /\ Len(result.items) = 2
  /\ result.totals["fail"] = 1
  /\ result.totals["ok"] + result.totals["no_trainer"] = 1

\* C13: every request to /run that gets past the URL-file check writes
\* exactly one report file, and a report once written is never overwritten:
\* any two reports have distinct paths and the earlier one keeps its content.
C13_ReportNeverOverwritten ==
  /\ Len(report_log) = IF pc \in {"idle", "done"} THEN requests ELSE requests - 1
  /\ \A i, j \in 1..Len(report_log) :
       i < j => report_log[i].path # report_log[j].path
  /\ \A i \in 1..Len(report_log) :
       /\ report_log[i].path \in DOMAIN reports
       /\ reports[report_log[i].path] = report_log[i].content

\* C14: when two URLs of the list map to one Capture Key, the file holds what
\* the latest capture wrote under that key (the later capture replaces the
\* earlier one), the report still has one item per URL in list order, and the
\* items of the two URLs name the same current and baseline paths and carry
\* the same status.
C14_CollisionOverwrites ==
  /\ \A n \in DOMAIN cap_written :
       /\ n \in DOMAIN fs[out_dir]
       /\ fs[out_dir][n] = cap_written[n].png
  /\ \A n \in overwrote :
       \E i, j \in 1..Len(attempted) :
         /\ i < j /\ attempted[i] # attempted[j]
         /\ su_sanitize_filename(attempted[i], DefaultMaxLen) = n
         /\ su_sanitize_filename(attempted[j], DefaultMaxLen) = n
         /\ cap_written[n].url = attempted[j]
  /\ Compared =>
       \A i, j \in 1..Len(per_item) :
         (i < j /\ KeyOf(i) = KeyOf(j)) =>
           /\ per_item[i].current = per_item[j].current
           /\ per_item[i].trainer = per_item[j].trainer
           /\ per_item[i].status = per_item[j].status
  /\ Reported =>
       /\ Len(result.items) = Len(Entries)
       /\ \A i \in 1..Len(Entries) : result.items[i].url = EntryUrl(Entries[i])

\* C14 witness: the capture of the second URL replaced the capture of the
\* first, and the report has two items with different URLs, one key, both
\* scored against the file the second capture wrote
C14_Witness ==
  /\ Reported
  /\ Len(result.items) = 2
  /\ result.items[1].url # result.items[2].url
  /\ KeyOf(1) = KeyOf(2)
  /\ KeyOf(1) \in overwrote
  /\ cap_written[KeyOf(1)].url = result.items[2].url
  /\ cmp_log[1].computed /\ cmp_log[2].computed
  /\ result.items[1].status = result.items[2].status

\* the order of the phases of screenshot_url
PhaseOrder == <<"navigate", "wait", "settle", "scroll", "capture">>

\* the phase an entry of phases stands for
PhaseName(p) == IF p = "wait_timeout" THEN "wait" ELSE p

\* C18: for each URL the phases run in the order navigate, wait-for-ready,
\* settle, scroll, capture, and a timeout of the wait is not fatal: right
\* after it the process is at the settle phase of the same URL with no
\* exception propagating, and from there the scroll and capture phases follow
\* as after a completed wait.
C18_TimeoutNotFatal ==
  /\ Len(phases) <= Len(PhaseOrder)
  /\ \A k \in 1..Len(phases) : PhaseName(phases[k]) = PhaseOrder[k]
  /\ cpc = "navigate" => phases = <<>>
  /\ cpc = "wait" => Len(phases) = 1
  /\ cpc = "settle" => Len(phases) = 2
  /\ cpc = "scroll" => Len(phases) = 3
  /\ cpc = "capture" => Len(phases) = 4
  /\ (Len(phases) = 2 /\ phases[2] = "wait_timeout") =>
       (cpc = "settle" /\ ~raised /\ Len(attempted) = cur)

\* C18 witness: the wait for the first URL timed out, the other phases ran
\* and the capture wrote the image of that URL
C18_Witness ==
  /\ cpc = "loop" /\ cur = 2
  /\ phases = <<"navigate", "wait_timeout", "settle", "scroll", "capture">>
  /\ su_sanitize_filename(attempted[1], DefaultMaxLen) \in DOMAIN cap_written
  /\ cap_written[su_sanitize_filename(attempted[1], DefaultMaxLen)].url = attempted[1]

\* C17: gentle_scroll makes at most max_steps (100) scroll steps whatever the
\* page does; it goes on after a step exactly when the offset read back differs
\* from the offset read after the previous step (0 at first); when it stops
\* because the two are equal it has made exactly one final scroll, to the
\* document height it read in that step; when it stops because the steps are
\* used up it has made none.
C17_ScrollBounded ==
  /\ steps <= DefaultMaxSteps
  /\ scrolled = steps
  /\ (gs_pc = "loop" /\ steps > 0) =>
       (new_height # prev_height /\ last_height = new_height /\ jumped = <<>>)
  /\ (gs_pc = "loop" /\ steps = 0) => (last_height = 0 /\ jumped = <<>>)
  /\ gs_pc = "returned" =>
       IF new_height = prev_height
         THEN jumped = <<height>>
         ELSE steps = DefaultMaxSteps /\ jumped = <<>>

\* C17 witness: the page grew on every scroll, the hundredth step still
\* advanced and the loop ended without a final jump
C17_Witness ==
  /\ gs_pc = "returned"
  /\ steps = DefaultMaxSteps
  /\ new_height = DefaultMaxSteps * ScrollStep
  /\ jumped = <<>>

\* the part of a file name before its ".png"
Stem(key) == Take(key, Len(key) - Len(S_png))

\* what C15 says of one file name
WellFormedKey(key) ==
  /\ Len(key) > Len(S_png)
  /\ Drop(key, Len(key) - Len(S_png)) = S_png
  /\ Len(key) <= DefaultMaxLen + 4
  /\ Range(Stem(key)) \subseteq SafeChars
  /\ \A k \in 1..(Len(Stem(key)) - 1) : ~(key[k] = "_" /\ key[k + 1] = "_")
  /\ key[1] # "_"

\* C15: for every string u, both copies of sanitize_filename give on every
\* call the same name; the name ends in ".png", is at most max_len + 4 = 154
\* characters long, and its stem is non-empty, made of characters of
\* [A-Za-z0-9._-] only, without two underscores in a row and without an
\* underscore at its start.
C15_KeyWellFormed ==
  /\ \A k \in 1..Len(h_keys) : WellFormedKey(h_keys[k]) /\ h_keys[k] = h_keys[1]
  /\ \A k \in 1..Len(su_keys) : WellFormedKey(su_keys[k]) /\ su_keys[k] = su_keys[1]

\* C15 witness: a string longer than the limit, called twice on each copy; the
\* name was cut to 150 characters and the cut left an underscore at its end
C15_Witness ==
  /\ Len(arg) > DefaultMaxLen
  /\ Len(h_keys) = 2 /\ Len(su_keys) = 2
  /\ Len(h_keys[1]) = DefaultMaxLen + 4
  /\ h_keys[1][DefaultMaxLen] = "_"

\* C20: for every line of the URL list, the names the comparison looks up
\* (list_urls, then helpers.sanitize_filename) are the names the capture
\* process writes (read_urls, the scheme default of main, then the script's
\* sanitize_filename): the same lines are kept and each gives the same name.
C20_SameNames ==
  (ctl_names # <<>> /\ cap_names # <<>>) => ctl_names[1] = cap_names[1]

\* C20 witness: a line with an upper-case scheme, its name derived on both
\* sides
C20_Witness ==
  /\ arg = S_HTTP_prefix \o <<"a", "/", "a">>
  /\ ctl_names = << <<(<<"H","T","T","P","_","a","_","a">> \o S_png)>> >>
  /\ cap_names # <<>>

====
